---- MODULE Spec2Model ----
(***************************************************************************)
(* Model of src/server/server.js: an express server that brokers the      *)
(* Salesforce OAuth flow and proxies identity and SOQL requests.          *)
(*                                                                         *)
(* A session object is a record whose only possible field is sfdcAuth;    *)
(* a request's query is a record whose possible fields are code and q.    *)
(* A JavaScript undefined property is an absent field.  The arguments of  *)
(* a node-style callback (error, payload) are a record in which a null    *)
(* argument is an absent field.                                           *)
(*                                                                         *)
(* Every handler runs to its first asynchronous call in one step (node    *)
(* runs a handler without interleaving until it returns); the callback of *)
(* that call is a second step that may interleave with other requests.    *)
(***************************************************************************)
EXTENDS Integers, Sequences, FiniteSets, TLC

\* ---------------------------------------------------------------- bounds
\* number of inbound requests over a run
MaxReqs == 3

Reqs == 1..MaxReqs

\* the identifier the session middleware generates for the new session of
\* request r: a fresh one for every request that needs a new session
generateId(r) == r

\* session identifiers
Sessions == {generateId(r) : r \in Reqs}

\* a request without a session cookie
NoCookie == 0

\* what the session cookie of a request may name: nothing, or any identifier
\* (one of a stored session, or one the store does not or no longer hold)
Cookies == {NoCookie} \cup Sessions

\* access tokens the authorization server may issue
Tokens == {"tokA", "tokB"}

\* issue times a payload of a successful code exchange may carry
IssueTimes == {1, 2}

\* OAuth payloads returned by a successful code exchange: the access token
\* and the time of issue (issued_at; it stands for the fields of the payload
\* that differ from one exchange to the next, issued_at and signature)
Credentials == {[access_token |-> t, issued_at |-> i] : t \in Tokens, i \in IssueTimes}

\* error objects an upstream call may hand to its callback
Errors == {"errX"}

\* bodies the upstream identity / data API may return
Bodies == {"bodyP"}

\* HTTP status codes of an upstream data response
UpstreamStatus == {200, 400}

\* query strings of /auth/callback: code absent, empty, present
CallbackQueries == {[c \in {} |-> ""], [code |-> ""], [code |-> "code1"]}

\* query strings of /query: q absent, empty, present
QueryQueries == {[c \in {} |-> ""], [q |-> <<>>], [q |-> <<"a", " ">>], [q |-> <<"a", "&">>]}

\* ------------------------------------------------------------- variables
VARIABLES
    session,   \* session store: session id -> session object (EmptyObject:
               \* the store holds no session with that id)
    req,       \* request -> [ep, sid, query, pc, ...] or [pc |-> "idle"]
    resp,      \* request -> sequence of responses sent to the browser
    calls,     \* request -> sequence of upstream calls issued
    log        \* request -> sequence of console messages

vars == <<session, req, resp, calls, log>>

\* a session object without properties (also: a query without parameters)
EmptyObject == [c \in {} |-> ""]

\* ------------------------------------------------------------- responses
\* response.status(401).send('No active session')
send401 == [status |-> 401, body |-> "No active session"]

\* response.status(500).send('Failed to get authorization code ...')
send500NoCode_400 == [status |-> 400, body |-> "Failed to get authorization code from server callback."]
send500NoCode == [status |-> 500, body |-> "Failed to get authorization code from server callback."]

\* response.status(400).send('Missing query parameter.')
send400_500 == [status |-> 500, body |-> "Missing query parameter."]
send400 == [status |-> 400, body |-> "Missing query parameter."]

\* response.status(500).json(error)
json500_noStatus(error) == [status |-> 200, body |-> error]
json500(error) == [status |-> 500, body |-> error]

\* response.send(body): status defaults to 200
send(body) == [status |-> 200, body |-> body]

\* response.redirect(uri): status defaults to 302
redirect(uri) == [status |-> 302, location |-> uri]

\* the application's main page
IndexPage == [base |-> "/index.html"]

\* sfdc.auth.getAuthorizationUrl(params): the authorization endpoint with
\* the requested scope as a URL parameter
getAuthorizationUrl(params) == [base |-> "authorize", scope |-> params.scope]

\* ----------------------------------------------------------- encodeURI
\* characters encodeURI leaves as they are (of the modelled alphabet)
URIUnescaped == {"a", "&", "=", "+", "#"}

\* percent-encoding of one character
encodeURIChar(c) ==
    IF c \in URIUnescaped THEN <<c>>
    ELSE IF c = " " THEN <<"%", "2", "0">>
    ELSE IF c = "%" THEN <<"%", "2", "5">>
    ELSE <<"%", "?", "?">>

RECURSIVE encodeURI(_)
encodeURI(str) ==
    IF str = <<>> THEN <<>>
    ELSE encodeURIChar(Head(str)) \o encodeURI(Tail(str))

\* 'query?q=' + query
DataPath(q) == <<"query?q=">> \o encodeURI(q)

\* ------------------------------------------------------------ getSession
\* typeof session['sfdcAuth'] === 'undefined'
HasAuth(sess) == "sfdcAuth" \in DOMAIN sess

\* !request.query.code : absent or empty string
NoCode(query) == ~("code" \in DOMAIN query) \/ query.code = ""

\* !request.query.q : absent or empty string
NoQ_absentOnly(query) == ~("q" \in DOMAIN query)
NoQ(query) == ~("q" \in DOMAIN query) \/ query.q = <<>>

\* a callback's first argument is truthy
IsError(cb) == "error" \in DOMAIN cb

\* the value of a request before it is received
Idle == [pc |-> "idle"]

\* request.sessionID of request r sent with cookie c: the session the cookie
\* names when the store holds it, else a new session with a fresh identifier
\* (no cookie, an unknown identifier, a session destroyed since).  With
\* saveUninitialized: false a session is stored only once it holds sfdcAuth,
\* so the store holds the session c exactly when session[c] is not empty.
sessionID(r, c) ==
    IF c \in Sessions /\ session[c] # EmptyObject THEN c ELSE generateId(r)

\* the request object a handler is invoked with: request.query, and
\* request.session, the request's own copy of the session as the session
\* middleware loaded it from the store
Request(ep, s, query, pc) ==
    [ep |-> ep, sid |-> s, query |-> query, session |-> session[s], pc |-> pc]

\* the request once a callback has run with arguments cb
Called(rq, cb, pc) ==
    [ep |-> rq.ep, sid |-> rq.sid, query |-> rq.query, session |-> rq.session,
     pc |-> pc, result |-> cb]

\* scope requested from the authorization server
LoginParams_id == [scope |-> "id"]
LoginParams == [scope |-> "api"]

\* request.session.sfdcAuth = payload
setSfdcAuth_merge(sess, payload) ==
    IF HasAuth(sess) THEN [sfdcAuth |-> payload, previous |-> sess.sfdcAuth]
    ELSE [sfdcAuth |-> payload]
setSfdcAuth_keep(sess, payload) ==
    IF HasAuth(sess) THEN sess ELSE [sfdcAuth |-> payload]
setSfdcAuth(sess, payload) == [sfdcAuth |-> payload]

\* what the session middleware does when a response ends (resave: false,
\* saveUninitialized: false): the request's session object sess is written
\* to the store only when it differs from the object as it was loaded for
\* the request; an unchanged session is not written, whatever the store
\* holds by then.  Handlers that do not assign to the session never write.
commitSession(store, s, loaded, sess) ==
    IF sess = loaded THEN store ELSE [store EXCEPT ![s] = sess]

\* (variant: a request is not handled while an upstream call is in flight,
\* as with a blocking upstream client)
CanReceive_blocking(r) ==
    /\ req[r].pc = "idle"
    /\ \A p \in 1..(r - 1) : req[p].pc # "idle"
    /\ \A p \in Reqs : req[p].pc # "waiting"

\* express hands requests to the handlers one at a time, in arrival order
CanReceive(r) ==
    /\ req[r].pc = "idle"
    /\ \A p \in 1..(r - 1) : req[p].pc # "idle"

Init ==
    /\ session = [s \in Sessions |-> EmptyObject]
    /\ req = [r \in Reqs |-> Idle]
    /\ resp = [r \in Reqs |-> <<>>]
    /\ calls = [r \in Reqs |-> <<>>]
    /\ log = [r \in Reqs |-> <<>>]

\* ------------------------------------------------------------ /auth/login
AuthLogin(r, c) ==
    LET s == sessionID(r, c) IN
    /\ CanReceive(r)
    /\ req' = [req EXCEPT ![r] = Request("login", s, EmptyObject, "done")]
    /\ resp' = [resp EXCEPT ![r] = Append(@, redirect(getAuthorizationUrl(LoginParams)))]
    /\ UNCHANGED <<session, calls, log>>

\* --------------------------------------------------------- /auth/callback
AuthCallback(r, c, query) ==
    LET s == sessionID(r, c) IN
    /\ CanReceive(r)
    /\ IF NoCode(query)
       THEN /\ req' = [req EXCEPT ![r] = Request("callback", s, query, "done")]
            /\ resp' = [resp EXCEPT ![r] = Append(@, send500NoCode)]
            /\ UNCHANGED calls
       ELSE /\ req' = [req EXCEPT ![r] = Request("callback", s, query, "waiting")]
            /\ calls' = [calls EXCEPT ![r] = Append(@, [kind |-> "authenticate", code |-> query.code])]
            /\ UNCHANGED resp
    /\ UNCHANGED <<session, log>>

\* callback of sfdc.auth.authenticate (variant: the exchanged token is
\* handed to the browser)
AuthenticateDone_expose(r, cb) ==
    /\ req[r].pc = "waiting"
    /\ req[r].ep = "callback"
    /\ req' = [req EXCEPT ![r] = Called(@, cb, "done")]
    /\ IF IsError(cb)
       THEN /\ log' = [log EXCEPT ![r] = Append(@, [msg |-> "Force.com authentication error: ", error |-> cb.error])]
            /\ resp' = [resp EXCEPT ![r] = Append(@, json500(cb.error))]
            /\ UNCHANGED session
       ELSE /\ session' = commitSession(session, req[r].sid, req[r].session,
                                        setSfdcAuth(req[r].session, cb.payload))
            /\ resp' = [resp EXCEPT ![r] = Append(@, send(cb.payload.access_token))]
            /\ UNCHANGED log
    /\ UNCHANGED calls

\* callback of sfdc.auth.authenticate
AuthenticateDone(r, cb) ==
    /\ req[r].pc = "waiting"
    /\ req[r].ep = "callback"
    /\ req' = [req EXCEPT ![r] = Called(@, cb, "done")]
    /\ IF IsError(cb)
       THEN /\ log' = [log EXCEPT ![r] = Append(@, [msg |-> "Force.com authentication error: ", error |-> cb.error])]
            /\ resp' = [resp EXCEPT ![r] = Append(@, json500(cb.error))]
            /\ UNCHANGED session
       ELSE /\ session' = commitSession(session, req[r].sid, req[r].session,
                                        setSfdcAuth(req[r].session, cb.payload))
            /\ resp' = [resp EXCEPT ![r] = Append(@, redirect(IndexPage))]
            /\ UNCHANGED log
    /\ UNCHANGED calls

\* /auth/logout (variant: another token of the credential is revoked)
AuthLogout_refresh(r, c) ==
    LET s == sessionID(r, c) IN
    /\ CanReceive(r)
    /\ IF ~HasAuth(session[s])
       THEN /\ req' = [req EXCEPT ![r] = Request("logout", s, EmptyObject, "done")]
            /\ resp' = [resp EXCEPT ![r] = Append(@, send401)]
            /\ UNCHANGED calls
       ELSE /\ req' = [req EXCEPT ![r] = Request("logout", s, EmptyObject, "waiting")]
            /\ calls' = [calls EXCEPT ![r] = Append(@, [kind |-> "revoke", token |-> "refresh_token"])]
            /\ UNCHANGED resp
    /\ UNCHANGED <<session, log>>

\* ----------------------------------------------------------- /auth/logout
AuthLogout(r, c) ==
    LET s == sessionID(r, c) IN
    /\ CanReceive(r)
    /\ IF ~HasAuth(session[s])
       THEN /\ req' = [req EXCEPT ![r] = Request("logout", s, EmptyObject, "done")]
            /\ resp' = [resp EXCEPT ![r] = Append(@, send401)]
            /\ UNCHANGED calls
       ELSE /\ req' = [req EXCEPT ![r] = Request("logout", s, EmptyObject, "waiting")]
            /\ calls' = [calls EXCEPT ![r] = Append(@, [kind |-> "revoke", token |-> session[s].sfdcAuth.access_token])]
            /\ UNCHANGED resp
    /\ UNCHANGED <<session, log>>

\* callback of sfdc.auth.revoke (variant: the error branch does not return,
\* so the session is destroyed and the redirect sent after the 500)
RevokeDone_noReturn(r, cb, destroyed) ==
    /\ req[r].pc = "waiting"
    /\ req[r].ep = "logout"
    /\ req' = [req EXCEPT ![r] =
                  [ep |-> @.ep, sid |-> @.sid, query |-> @.query, session |-> @.session,
                   pc |-> "destroying", result |-> cb, destroy |-> destroyed]]
    /\ session' = IF IsError(destroyed) THEN session
                  ELSE [session EXCEPT ![req[r].sid] = EmptyObject]
    /\ IF IsError(cb)
       THEN /\ log' = [log EXCEPT ![r] = Append(@, [msg |-> "Force.com OAuth revoke error: ", error |-> cb.error])]
            /\ resp' = [resp EXCEPT ![r] = Append(Append(@, json500(cb.error)), redirect(IndexPage))]
       ELSE /\ resp' = [resp EXCEPT ![r] = Append(@, redirect(IndexPage))]
            /\ UNCHANGED log
    /\ UNCHANGED calls

\* callback of sfdc.auth.revoke (variant: a failed destruction is reported
\* to the browser instead of the redirect)
RevokeDone_escalate(r, cb, destroyed) ==
    /\ req[r].pc = "waiting"
    /\ req[r].ep = "logout"
    /\ IF IsError(cb)
       THEN /\ req' = [req EXCEPT ![r] = Called(@, cb, "done")]
            /\ log' = [log EXCEPT ![r] = Append(@, [msg |-> "Force.com OAuth revoke error: ", error |-> cb.error])]
            /\ resp' = [resp EXCEPT ![r] = Append(@, json500(cb.error))]
            /\ UNCHANGED session
       ELSE /\ req' = [req EXCEPT ![r] =
                          [ep |-> @.ep, sid |-> @.sid, query |-> @.query, session |-> @.session,
                           pc |-> "destroying", result |-> cb, destroy |-> destroyed]]
            /\ session' = IF IsError(destroyed) THEN session
                          ELSE [session EXCEPT ![req[r].sid] = EmptyObject]
            /\ resp' = [resp EXCEPT ![r] =
                           IF IsError(destroyed) THEN Append(@, json500(destroyed.error))
                           ELSE Append(@, redirect(IndexPage))]
            /\ UNCHANGED log
    /\ UNCHANGED calls

\* callback of sfdc.auth.revoke.  destroyed is what the store's destroy
\* will hand to its callback, which runs later (DestroyDone): a store that
\* fails leaves the stored session as it is.
RevokeDone(r, cb, destroyed) ==
    /\ req[r].pc = "waiting"
    /\ req[r].ep = "logout"
    /\ IF IsError(cb)
       THEN /\ req' = [req EXCEPT ![r] = Called(@, cb, "done")]
            /\ log' = [log EXCEPT ![r] = Append(@, [msg |-> "Force.com OAuth revoke error: ", error |-> cb.error])]
            /\ resp' = [resp EXCEPT ![r] = Append(@, json500(cb.error))]
            /\ UNCHANGED session
       ELSE /\ req' = [req EXCEPT ![r] =
                          [ep |-> @.ep, sid |-> @.sid, query |-> @.query, session |-> @.session,
                           pc |-> "destroying", result |-> cb, destroy |-> destroyed]]
            /\ session' = IF IsError(destroyed) THEN session
                          ELSE [session EXCEPT ![req[r].sid] = EmptyObject]
            /\ resp' = [resp EXCEPT ![r] = Append(@, redirect(IndexPage))]
            /\ UNCHANGED log
    /\ UNCHANGED calls

\* callback of session.destroy
DestroyDone(r) ==
    /\ req[r].pc = "destroying"
    /\ req' = [req EXCEPT ![r].pc = "done"]
    /\ log' = IF IsError(req[r].destroy)
              THEN [log EXCEPT ![r] = Append(@, [msg |-> "Force.com session destruction error: ", error |-> req[r].destroy.error])]
              ELSE log
    /\ UNCHANGED <<session, resp, calls>>

\* /auth/whoami (variant: the credential is taken from another session
\* that has one, as a credential kept in a variable shared by all requests
\* would be)
AuthWhoami_shared(r, c) ==
    LET s == sessionID(r, c) IN
    /\ CanReceive(r)
    /\ IF ~HasAuth(session[s])
       THEN /\ req' = [req EXCEPT ![r] = Request("whoami", s, EmptyObject, "done")]
            /\ resp' = [resp EXCEPT ![r] = Append(@, send401)]
            /\ UNCHANGED calls
       ELSE /\ req' = [req EXCEPT ![r] = Request("whoami", s, EmptyObject, "waiting")]
            /\ LET o == IF \E s2 \in Sessions \ {s} : HasAuth(session[s2])
                        THEN CHOOSE s2 \in Sessions \ {s} : HasAuth(session[s2])
                        ELSE s
               IN calls' = [calls EXCEPT ![r] = Append(@, [kind |-> "getLoggedUser", auth |-> session[o].sfdcAuth])]
            /\ UNCHANGED resp
    /\ UNCHANGED <<session, log>>

\* ----------------------------------------------------------- /auth/whoami
AuthWhoami(r, c) ==
    LET s == sessionID(r, c) IN
    /\ CanReceive(r)
    /\ IF ~HasAuth(session[s])
       THEN /\ req' = [req EXCEPT ![r] = Request("whoami", s, EmptyObject, "done")]
            /\ resp' = [resp EXCEPT ![r] = Append(@, send401)]
            /\ UNCHANGED calls
       ELSE /\ req' = [req EXCEPT ![r] = Request("whoami", s, EmptyObject, "waiting")]
            /\ calls' = [calls EXCEPT ![r] = Append(@, [kind |-> "getLoggedUser", auth |-> session[s].sfdcAuth])]
            /\ UNCHANGED resp
    /\ UNCHANGED <<session, log>>

\* callback of sfdc.data.getLoggedUser (variant: an identity failure also
\* drops the credential)
GetLoggedUserDone_drop(r, cb) ==
    /\ req[r].pc = "waiting"
    /\ req[r].ep = "whoami"
    /\ req' = [req EXCEPT ![r] = Called(@, cb, "done")]
    /\ IF IsError(cb)
       THEN /\ log' = [log EXCEPT ![r] = Append(@, [msg |-> "Force.com identity API error: ", error |-> cb.error])]
            /\ resp' = [resp EXCEPT ![r] = Append(@, json500(cb.error))]
            /\ session' = [session EXCEPT ![req[r].sid] = EmptyObject]
       ELSE /\ resp' = [resp EXCEPT ![r] = Append(@, send(cb.payload))]
            /\ UNCHANGED <<log, session>>
    /\ UNCHANGED calls

\* callback of sfdc.data.getLoggedUser
GetLoggedUserDone(r, cb) ==
    /\ req[r].pc = "waiting"
    /\ req[r].ep = "whoami"
    /\ req' = [req EXCEPT ![r] = Called(@, cb, "done")]
    /\ IF IsError(cb)
       THEN /\ log' = [log EXCEPT ![r] = Append(@, [msg |-> "Force.com identity API error: ", error |-> cb.error])]
            /\ resp' = [resp EXCEPT ![r] = Append(@, json500(cb.error))]
       ELSE /\ resp' = [resp EXCEPT ![r] = Append(@, send(cb.payload))]
            /\ UNCHANGED log
    /\ UNCHANGED <<session, calls>>

\* ----------------------------------------------------------------- /query
\* (variant: the q parameter is validated before the session)
Query_qFirst(r, c, query) ==
    LET s == sessionID(r, c) IN
    /\ CanReceive(r)
    /\ IF NoQ(query)
       THEN /\ req' = [req EXCEPT ![r] = Request("query", s, query, "done")]
            /\ resp' = [resp EXCEPT ![r] = Append(@, send400)]
            /\ UNCHANGED calls
       ELSE IF ~HasAuth(session[s])
       THEN /\ req' = [req EXCEPT ![r] = Request("query", s, query, "done")]
            /\ resp' = [resp EXCEPT ![r] = Append(@, send401)]
            /\ UNCHANGED calls
       ELSE /\ req' = [req EXCEPT ![r] = Request("query", s, query, "waiting")]
            /\ calls' = [calls EXCEPT ![r] = Append(@, [kind |-> "httpGet", auth |-> session[s].sfdcAuth, path |-> DataPath(query.q)])]
            /\ UNCHANGED resp
    /\ UNCHANGED <<session, log>>

Query(r, c, query) ==
    LET s == sessionID(r, c) IN
    /\ CanReceive(r)
    /\ IF ~HasAuth(session[s])
       THEN /\ req' = [req EXCEPT ![r] = Request("query", s, query, "done")]
            /\ resp' = [resp EXCEPT ![r] = Append(@, send401)]
            /\ UNCHANGED calls
       ELSE IF NoQ(query)
       THEN /\ req' = [req EXCEPT ![r] = Request("query", s, query, "done")]
            /\ resp' = [resp EXCEPT ![r] = Append(@, send400)]
            /\ UNCHANGED calls
       ELSE /\ req' = [req EXCEPT ![r] = Request("query", s, query, "waiting")]
            /\ calls' = [calls EXCEPT ![r] = Append(@, [kind |-> "httpGet", auth |-> session[s].sfdcAuth, path |-> DataPath(query.q)])]
            /\ UNCHANGED resp
    /\ UNCHANGED <<session, log>>

\* callback of httpClient.get (variant: a failed data call is issued once
\* more before the error is reported)
HttpGetDone_retry(r, cb) ==
    /\ req[r].pc = "waiting"
    /\ req[r].ep = "query"
    /\ IF IsError(cb) /\ Len(calls[r]) < 2
       THEN /\ calls' = [calls EXCEPT ![r] = Append(@, @[1])]
            /\ UNCHANGED <<req, resp, log>>
       ELSE /\ req' = [req EXCEPT ![r] = Called(@, cb, "done")]
            /\ UNCHANGED calls
            /\ IF IsError(cb)
               THEN /\ log' = [log EXCEPT ![r] = Append(@, [msg |-> "Force.com data API error: ", error |-> cb.error])]
                    /\ resp' = [resp EXCEPT ![r] = Append(@, json500(cb.error))]
               ELSE /\ resp' = [resp EXCEPT ![r] = Append(@, send(cb.payload.body))]
                    /\ UNCHANGED log
    /\ UNCHANGED session

\* callback of httpClient.get (variant: a failed data call also drops the
\* credential)
HttpGetDone_drop(r, cb) ==
    /\ req[r].pc = "waiting"
    /\ req[r].ep = "query"
    /\ req' = [req EXCEPT ![r] = Called(@, cb, "done")]
    /\ IF IsError(cb)
       THEN /\ log' = [log EXCEPT ![r] = Append(@, [msg |-> "Force.com data API error: ", error |-> cb.error])]
            /\ resp' = [resp EXCEPT ![r] = Append(@, json500(cb.error))]
            /\ session' = [session EXCEPT ![req[r].sid] = EmptyObject]
       ELSE /\ resp' = [resp EXCEPT ![r] = Append(@, send(cb.payload.body))]
            /\ UNCHANGED <<log, session>>
    /\ UNCHANGED calls

\* callback of httpClient.get: error is set on a transport failure only; an
\* upstream HTTP error arrives as a payload with its status code and body
HttpGetDone(r, cb) ==
    /\ req[r].pc = "waiting"
    /\ req[r].ep = "query"
    /\ req' = [req EXCEPT ![r] = Called(@, cb, "done")]
    /\ IF IsError(cb)
       THEN /\ log' = [log EXCEPT ![r] = Append(@, [msg |-> "Force.com data API error: ", error |-> cb.error])]
            /\ resp' = [resp EXCEPT ![r] = Append(@, json500(cb.error))]
       ELSE /\ resp' = [resp EXCEPT ![r] = Append(@, send(cb.payload.body))]
            /\ UNCHANGED log
    /\ UNCHANGED <<session, calls>>

\* arguments an upstream callback can be invoked with
ErrorArgs == {[error |-> e] : e \in Errors}
\* an exchange fails, or returns any payload: the callback takes what it is
\* given, also a payload equal to one an earlier exchange returned
AuthenticateArgs == ErrorArgs \cup {[payload |-> c] : c \in Credentials}
RevokeArgs == ErrorArgs \cup {EmptyObject}
DestroyArgs == ErrorArgs \cup {EmptyObject}
GetLoggedUserArgs == ErrorArgs \cup {[payload |-> b] : b \in Bodies}
HttpGetArgs == ErrorArgs \cup {[payload |-> [statusCode |-> c, body |-> b]] : c \in UpstreamStatus, b \in Bodies}

Next ==
    \/ \E r \in Reqs, c \in Cookies : AuthLogin(r, c)
    \/ \E r \in Reqs, c \in Cookies, query \in CallbackQueries : AuthCallback(r, c, query)
    \/ \E r \in Reqs, cb \in AuthenticateArgs : AuthenticateDone(r, cb)
    \/ \E r \in Reqs, c \in Cookies : AuthLogout(r, c)
    \/ \E r \in Reqs, cb \in RevokeArgs, d \in DestroyArgs : RevokeDone(r, cb, d)
    \/ \E r \in Reqs : DestroyDone(r)
    \/ \E r \in Reqs, c \in Cookies : AuthWhoami(r, c)
    \/ \E r \in Reqs, cb \in GetLoggedUserArgs : GetLoggedUserDone(r, cb)
    \/ \E r \in Reqs, c \in Cookies, query \in QueryQueries : Query(r, c, query)
    \/ \E r \in Reqs, cb \in HttpGetArgs : HttpGetDone(r, cb)

Spec == Init /\ [][Next]_vars

\* ================================================================ claims
\* request r is handed to its handler in this step
Receives(r) == req[r].pc = "idle" /\ req'[r].pc # "idle"

\* the callback of request r's upstream call runs in this step
Completes(r) == req[r].pc = "waiting" /\ req'[r].pc # "waiting"

\* request r is answered in this step with exactly the response x
Answers(r, x) == resp[r] = <<>> /\ resp'[r] = <<x>>

ProtectedEndpoints == {"whoami", "query", "logout"}

RedirectToIndex == [status |-> 302, location |-> [base |-> "/index.html"]]

\* C1: a whoami, query or logout request received while its session has no
\* sfdcAuth is answered 401 in the same step, issues no upstream call, is
\* finished, and leaves every session as it was, whatever its query string.
C1_UnauthenticatedRejected ==
    [][\A r \in Reqs :
        (/\ Receives(r)
         /\ req'[r].ep \in ProtectedEndpoints
         /\ "sfdcAuth" \notin DOMAIN session[req'[r].sid])
        => /\ Len(resp'[r]) = 1
           /\ resp'[r][1].status = 401
           /\ calls' = calls
           /\ session' = session
           /\ req'[r].pc = "done"]_vars

\* the three protected endpoints have each answered 401 to an
\* unauthenticated request, the query one without a q parameter
C1_Witness ==
    \E a, b, c \in Reqs :
        /\ req[a].pc = "done" /\ req[a].ep = "whoami"
        /\ req[b].pc = "done" /\ req[b].ep = "query"
        /\ req[c].pc = "done" /\ req[c].ep = "logout"
        /\ "q" \notin DOMAIN req[b].query
        /\ \A r \in {a, b, c} :
            /\ "sfdcAuth" \notin DOMAIN req[r].session
            /\ Len(resp[r]) = 1 /\ resp[r][1].status = 401
            /\ calls[r] = <<>>

\* C2: when the revoke call of a logout on an authenticated session
\* completes, with success or with failure, the request is answered with a
\* 302 to /index.html and its session then holds no credential.
C2_LogoutAlwaysRedirects ==
    [][\A r \in Reqs :
        (Completes(r) /\ req[r].ep = "logout")
        => /\ Answers(r, RedirectToIndex)
           /\ "sfdcAuth" \notin DOMAIN session'[req[r].sid]]_vars

\* a logout whose revoke call failed has been answered
C2_FailingCase ==
    \E r \in Reqs :
        /\ req[r].pc = "done" /\ req[r].ep = "logout"
        /\ "result" \in DOMAIN req[r] /\ "error" \in DOMAIN req[r].result

C4_CallbackWithoutCode ==
    [][\A r \in Reqs :
        (/\ Receives(r)
         /\ req'[r].ep = "callback"
         /\ "code" \notin DOMAIN req'[r].query)
        => /\ Len(resp'[r]) = 1
           /\ resp'[r][1].status = 500
           /\ calls' = calls
           /\ session' = session
           /\ req'[r].pc = "done"]_vars

\* callbacks without a code have been answered 500 on a session without and
\* on a session with a credential, which is still there
C4_Witness ==
    \E a, b \in Reqs :
        /\ req[a].pc = "done" /\ req[a].ep = "callback"
        /\ "code" \notin DOMAIN req[a].query
        /\ "sfdcAuth" \notin DOMAIN req[a].session
        /\ resp[a] = <<[status |-> 500, body |-> "Failed to get authorization code from server callback."]>>
        /\ req[b].pc = "done" /\ req[b].ep = "callback"
        /\ "code" \notin DOMAIN req[b].query
        /\ "sfdcAuth" \in DOMAIN req[b].session
        /\ session[req[b].sid] = req[b].session
        /\ Len(resp[b]) = 1 /\ resp[b][1].status = 500
        /\ calls[b] = <<>>

\* the client-input errors of a request as it is received
Unauthenticated(r) ==
    /\ req'[r].ep \in ProtectedEndpoints
    /\ "sfdcAuth" \notin DOMAIN session[req'[r].sid]

MissingAuthorizationCode(r) ==
    /\ req'[r].ep = "callback"
    /\ ("code" \notin DOMAIN req'[r].query \/ req'[r].query.code = "")

MissingQueryParameter(r) ==
    /\ req'[r].ep = "query"
    /\ "sfdcAuth" \in DOMAIN session[req'[r].sid]
    /\ ("q" \notin DOMAIN req'[r].query \/ req'[r].query.q = <<>>)

\* C5 (as claimed): a request with a client-input error (Unauthenticated,
\* MissingAuthorizationCode, MissingQueryParameter) is answered in the step
\* that receives it with a 4xx status and without an upstream call.
C5_ClientErrorsAre4xx ==
    [][\A r \in Reqs :
        (Receives(r) /\ (Unauthenticated(r) \/ MissingAuthorizationCode(r) \/ MissingQueryParameter(r)))
        => /\ Len(resp'[r]) = 1
           /\ resp'[r][1].status \in 400..499
           /\ calls' = calls
           /\ req'[r].pc = "done"]_vars

\* C5 (amended): a request with a client-input error is answered in the step
\* that receives it, without an upstream call: Unauthenticated with 401,
\* MissingQueryParameter with 400, MissingAuthorizationCode with 500.
C5_ClientErrorsRejected ==
    [][\A r \in Reqs :
        (Receives(r) /\ (Unauthenticated(r) \/ MissingAuthorizationCode(r) \/ MissingQueryParameter(r)))
        => /\ Len(resp'[r]) = 1
           /\ resp'[r][1].status =
                 (IF Unauthenticated(r) THEN 401
                  ELSE IF MissingQueryParameter(r) THEN 400 ELSE 500)
           /\ calls' = calls
           /\ req'[r].pc = "done"]_vars

\* an empty q on an authenticated session has been answered 400 and an
\* empty code 500, neither with an upstream call
C5_Witness ==
    \E a, b \in Reqs :
        /\ req[a].pc = "done" /\ req[a].ep = "query"
        /\ "sfdcAuth" \in DOMAIN req[a].session
        /\ req[a].query = [q |-> <<>>]
        /\ Len(resp[a]) = 1 /\ resp[a][1].status = 400 /\ calls[a] = <<>>
        /\ req[b].pc = "done" /\ req[b].ep = "callback"
        /\ req[b].query = [code |-> ""]
        /\ Len(resp[b]) = 1 /\ resp[b][1].status = 500 /\ calls[b] = <<>>

\* the data call of a request failed: a transport failure, or an upstream
\* response with an HTTP error status
DataCallFailed(cb) ==
    \/ "error" \in DOMAIN cb
    \/ cb.payload.statusCode >= 400

\* C6: when the data call of a query request completes, a failed call
\* (transport failure or upstream error) is answered 500 with the upstream
\* error payload and a successful one 200 with the upstream body; no failed
\* call is answered 200.
C6_QueryUpstreamResult ==
    [][\A r \in Reqs :
        (Completes(r) /\ req[r].ep = "query")
        => IF DataCallFailed(req'[r].result)
           THEN /\ Len(resp'[r]) = 1
                /\ resp'[r][1].status = 500
                /\ resp'[r][1].body =
                      (IF "error" \in DOMAIN req'[r].result
                       THEN req'[r].result.error
                       ELSE req'[r].result.payload.body)
           ELSE Answers(r, [status |-> 200, body |-> req'[r].result.payload.body])]_vars

\* a query whose upstream response carried an HTTP error status has been
\* answered
C6_FailingCase ==
    \E r \in Reqs :
        /\ req[r].pc = "done" /\ req[r].ep = "query"
        /\ "result" \in DOMAIN req[r] /\ "payload" \in DOMAIN req[r].result
        /\ req[r].result.payload.statusCode = 400

\* C7: a query request received on an authenticated session with q absent
\* or empty is answered 400 in that step, issues no upstream call and leaves
\* every session as it was.
C7_QueryWithoutQ ==
    [][\A r \in Reqs :
        (/\ Receives(r)
         /\ req'[r].ep = "query"
         /\ "sfdcAuth" \in DOMAIN session[req'[r].sid]
         /\ ("q" \notin DOMAIN req'[r].query \/ req'[r].query.q = <<>>))
        => /\ Len(resp'[r]) = 1
           /\ resp'[r][1].status = 400
           /\ calls' = calls
           /\ session' = session
           /\ req'[r].pc = "done"]_vars

\* on an authenticated session a query without q and a query with an empty
\* q have both been answered 400, and the credential is still there
C7_Witness ==
    \E a, b \in Reqs :
        /\ req[a].pc = "done" /\ req[a].ep = "query"
        /\ req[a].query = EmptyObject
        /\ req[b].pc = "done" /\ req[b].ep = "query"
        /\ req[b].query = [q |-> <<>>]
        /\ \A r \in {a, b} :
            /\ "sfdcAuth" \in DOMAIN req[r].session
            /\ session[req[r].sid] = req[r].session
            /\ Len(resp[r]) = 1 /\ resp[r][1].status = 400
            /\ calls[r] = <<>>

\* C8: when the code exchange of a callback request fails, the request is
\* answered 500 with the upstream error payload (never with a redirect) and
\* every session is as it was before the step.
C8_CallbackExchangeFailure ==
    [][\A r \in Reqs :
        (/\ Completes(r)
         /\ req[r].ep = "callback"
         /\ "error" \in DOMAIN req'[r].result)
        => /\ Answers(r, [status |-> 500, body |-> req'[r].result.error])
           /\ session' = session]_vars

\* exchanges have failed on a session without a credential and on a session
\* with one, which is still stored
C8_Witness ==
    \E a, b \in Reqs :
        /\ req[a].pc = "done" /\ req[a].ep = "callback"
        /\ "result" \in DOMAIN req[a] /\ "error" \in DOMAIN req[a].result
        /\ session[req[a].sid] = EmptyObject
        /\ req[b].pc = "done" /\ req[b].ep = "callback"
        /\ "result" \in DOMAIN req[b] /\ "error" \in DOMAIN req[b].result
        /\ "sfdcAuth" \in DOMAIN req[b].session
        /\ session[req[b].sid] = req[b].session
        /\ resp[b] = <<[status |-> 500, body |-> req[b].result.error]>>

\* C9: when the identity call of a whoami request completes, a success is
\* answered 200 with the upstream profile body and a failure 500 with the
\* upstream error payload; every session is as it was before the step.
C9_WhoamiResult ==
    [][\A r \in Reqs :
        (Completes(r) /\ req[r].ep = "whoami")
        => /\ IF "error" \in DOMAIN req'[r].result
              THEN Answers(r, [status |-> 500, body |-> req'[r].result.error])
              ELSE Answers(r, [status |-> 200, body |-> req'[r].result.payload])
           /\ session' = session]_vars

\* one whoami has succeeded and another has failed on a session that still
\* holds its credential
C9_Witness ==
    \E a, b \in Reqs :
        /\ req[a].pc = "done" /\ req[a].ep = "whoami"
        /\ "result" \in DOMAIN req[a] /\ "payload" \in DOMAIN req[a].result
        /\ resp[a] = <<[status |-> 200, body |-> req[a].result.payload]>>
        /\ req[b].pc = "done" /\ req[b].ep = "whoami"
        /\ "result" \in DOMAIN req[b] /\ "error" \in DOMAIN req[b].result
        /\ resp[b] = <<[status |-> 500, body |-> req[b].result.error]>>
        /\ req[a].sid = req[b].sid
        /\ session[req[b].sid] = req[b].session

\* C10: a login request is answered, in the step that receives it, with a
\* 302 to the authorization endpoint with scope api; it issues no upstream
\* call and leaves every session as it was.
C10_LoginRedirects ==
    [][\A r \in Reqs :
        (Receives(r) /\ req'[r].ep = "login")
        => /\ Answers(r, [status |-> 302, location |-> [base |-> "authorize", scope |-> "api"]])
           /\ calls' = calls
           /\ session' = session
           /\ req'[r].pc = "done"]_vars

\* logins have been answered on a session without a credential and on a
\* session with one, which is still stored
C10_Witness ==
    \E a, b \in Reqs :
        /\ req[a].pc = "done" /\ req[a].ep = "login"
        /\ req[a].session = EmptyObject
        /\ req[b].pc = "done" /\ req[b].ep = "login"
        /\ "sfdcAuth" \in DOMAIN req[b].session
        /\ session[req[b].sid] = req[b].session
        /\ \A r \in {a, b} :
            /\ Len(resp[r]) = 1 /\ resp[r][1].status = 302
            /\ calls[r] = <<>>

\* C11: every session object is either without a credential or holds
\* exactly one, in sfdcAuth and nowhere else, and that credential is the
\* payload of a callback request of that session whose exchange succeeded:
\* a later successful callback replaces it, nothing is merged or kept.
C11_AtMostOneCredential ==
    \A s \in Sessions :
        \/ session[s] = EmptyObject
        \/ /\ DOMAIN session[s] = {"sfdcAuth"}
           /\ session[s].sfdcAuth \in Credentials
           /\ \E r \in Reqs :
                /\ req[r].pc = "done" /\ req[r].ep = "callback" /\ req[r].sid = s
                /\ "result" \in DOMAIN req[r]
                /\ req[r].result = [payload |-> session[s].sfdcAuth]

\* two callbacks of one authenticated session were both in flight before
\* either completed (both arrived while the session held the credential a
\* first callback had stored), they returned different credentials, and the
\* session holds one credential alone, another than the first
C11_Witness ==
    \E a, b, c \in Reqs :
        /\ a < b /\ b < c
        /\ \A r \in {a, b, c} :
            /\ req[r].pc = "done" /\ req[r].ep = "callback"
            /\ req[r].sid = req[a].sid
            /\ "result" \in DOMAIN req[r] /\ "payload" \in DOMAIN req[r].result
        /\ req[b].session = [sfdcAuth |-> req[a].result.payload]
        /\ req[c].session = [sfdcAuth |-> req[a].result.payload]
        /\ req[b].result.payload # req[c].result.payload
        /\ DOMAIN session[req[a].sid] = {"sfdcAuth"}
        /\ session[req[a].sid].sfdcAuth # req[a].result.payload

\* what the browser is told for a request, as a function of data that does
\* not involve the value of any credential: the endpoint, the query, whether
\* the session held a credential on arrival, and the error or body the
\* upstream call returned
ClientVisible(rq) ==
    IF rq.ep = "login"
    THEN [status |-> 302, location |-> [base |-> "authorize", scope |-> "api"]]
    ELSE IF rq.ep = "callback"
    THEN IF "result" \notin DOMAIN rq
         THEN [status |-> 500, body |-> "Failed to get authorization code from server callback."]
         ELSE IF "error" \in DOMAIN rq.result
         THEN [status |-> 500, body |-> rq.result.error]
         ELSE RedirectToIndex
    ELSE IF "sfdcAuth" \notin DOMAIN rq.session
    THEN [status |-> 401, body |-> "No active session"]
    ELSE IF "result" \notin DOMAIN rq
    THEN [status |-> 400, body |-> "Missing query parameter."]
    ELSE IF "error" \in DOMAIN rq.result
    THEN [status |-> 500, body |-> rq.result.error]
    ELSE IF rq.ep = "logout"
    THEN RedirectToIndex
    ELSE IF rq.ep = "whoami"
    THEN [status |-> 200, body |-> rq.result.payload]
    ELSE [status |-> 200, body |-> rq.result.payload.body]

\* C12: every response sent to the browser is the one ClientVisible gives
\* for its request, so it does not vary with the value of the stored token
\* (two runs that differ only in that value answer alike), and no response
\* body is an access token.
C12_TokenNeverExposed ==
    \A r \in Reqs : \A i \in DOMAIN resp[r] :
        /\ resp[r][i] = ClientVisible(req[r])
        /\ "body" \in DOMAIN resp[r][i] => resp[r][i].body \notin Tokens

\* a session has been authenticated, and a whoami and a query on it (one
\* succeeding, one failing upstream) have been answered
C12_Witness ==
    \E a, b, c \in Reqs :
        /\ req[a].pc = "done" /\ req[a].ep = "callback"
        /\ "result" \in DOMAIN req[a] /\ "payload" \in DOMAIN req[a].result
        /\ resp[a] = <<RedirectToIndex>>
        /\ req[b].pc = "done" /\ req[b].ep = "whoami"
        /\ req[b].session = [sfdcAuth |-> req[a].result.payload]
        /\ "result" \in DOMAIN req[b] /\ "payload" \in DOMAIN req[b].result
        /\ Len(resp[b]) = 1
        /\ req[c].pc = "done" /\ req[c].ep = "query"
        /\ req[c].session = [sfdcAuth |-> req[a].result.payload]
        /\ "result" \in DOMAIN req[c] /\ "error" \in DOMAIN req[c].result
        /\ Len(resp[c]) = 1

\* the step is the success branch of the exchange callback of a callback
\* request of session s
StoresCredential(s) ==
    \E r \in Reqs :
        /\ Completes(r) /\ req[r].ep = "callback" /\ req[r].sid = s
        /\ "payload" \in DOMAIN req'[r].result
        /\ session'[s] = [sfdcAuth |-> req'[r].result.payload]

\* the step is the success branch of the revoke callback of a logout
\* request of session s, and the session is destroyed
DestroysSession(s) ==
    \E r \in Reqs :
        /\ Completes(r) /\ req[r].ep = "logout" /\ req[r].sid = s
        /\ "error" \notin DOMAIN req'[r].result
        /\ "sfdcAuth" \in DOMAIN session[s]
        /\ session'[s] = EmptyObject

\* C13: a step that changes a session's credential is either the success
\* of a callback's exchange, which stores the exchanged credential, or a
\* logout destroying the session, which takes it from present to absent;
\* no step that is neither of these (login, whoami, query, a callback without
\* code or with a failed exchange, a 401) changes it.
C13_CredentialChanges ==
    [][\A s \in Sessions :
        session'[s] # session[s] => (StoresCredential(s) \/ DestroysSession(s))]_vars

\* a session has been authenticated by a callback and then emptied by a
\* logout, with a whoami answered in between
C13_Witness ==
    \E a, b, c \in Reqs :
        /\ req[a].pc = "done" /\ req[a].ep = "callback"
        /\ "result" \in DOMAIN req[a] /\ "payload" \in DOMAIN req[a].result
        /\ req[b].pc = "done" /\ req[b].ep = "whoami" /\ req[b].sid = req[a].sid
        /\ "result" \in DOMAIN req[b]
        /\ req[c].pc \in {"destroying", "done"} /\ req[c].ep = "logout" /\ req[c].sid = req[a].sid
        /\ "result" \in DOMAIN req[c] /\ "error" \notin DOMAIN req[c].result
        /\ req[c].session = [sfdcAuth |-> req[a].result.payload]
        /\ session[req[a].sid] = EmptyObject

\* C14: when the revoke call of a logout succeeds, the request is answered
\* with the 302 to /index.html in that very step, whether the destruction
\* of the session is going to fail or not and before its callback has run;
\* when that callback then runs, a failure is written to the console and
\* nothing else happens: no response is sent and no session changes.
C14_DestroyFailureOnlyLogged ==
    [][\A r \in Reqs :
        /\ (/\ Completes(r) /\ req[r].ep = "logout"
            /\ "error" \notin DOMAIN req'[r].result)
           => /\ Answers(r, RedirectToIndex)
              /\ req'[r].pc = "destroying"
              /\ log' = log
        /\ (req[r].pc = "destroying" /\ req'[r].pc # "destroying")
           => /\ resp' = resp
              /\ session' = session
              /\ calls' = calls
              /\ log'[r] = (IF "error" \in DOMAIN req[r].destroy
                            THEN Append(log[r], [msg |-> "Force.com session destruction error: ",
                                                 error |-> req[r].destroy.error])
                            ELSE log[r])]_vars

\* a logout whose session destruction failed has been answered with the
\* redirect alone, and the failure is on the console
C14_Witness ==
    \E r \in Reqs :
        /\ req[r].pc = "done" /\ req[r].ep = "logout"
        /\ "destroy" \in DOMAIN req[r] /\ "error" \in DOMAIN req[r].destroy
        /\ resp[r] = <<RedirectToIndex>>
        /\ log[r] = <<[msg |-> "Force.com session destruction error: ", error |-> req[r].destroy.error]>>

\* C15: a request issues its upstream call, if any, in the step that
\* receives it and never another one: no request has more than one call, and
\* no step of a request already received (in particular the callback of a
\* failed call) adds a call.
C15_AtMostOneUpstreamCall ==
    [][\A r \in Reqs :
        /\ Len(calls'[r]) <= 1
        /\ req[r].pc # "idle" => calls'[r] = calls[r]]_vars

\* a logout, a query and a callback have each issued one call, the calls of
\* two of them failed, and all three are answered with one call each
C15_Witness ==
    \E a, b, c \in Reqs :
        /\ req[a].pc = "done" /\ req[a].ep = "callback"
        /\ req[b].pc = "done" /\ req[b].ep = "query"
        /\ req[c].pc = "done" /\ req[c].ep = "logout"
        /\ "result" \in DOMAIN req[b] /\ "error" \in DOMAIN req[b].result
        /\ "result" \in DOMAIN req[c] /\ "error" \in DOMAIN req[c].result
        /\ \A r \in {a, b, c} : Len(calls[r]) = 1 /\ Len(resp[r]) = 1

\* an upstream call was made with credential cred: revoke is given its
\* access token, the identity and data calls the credential itself
CallCredential(call, cred) ==
    IF call.kind = "revoke" THEN call.token = cred.access_token ELSE call.auth = cred

\* C16: the upstream call of a whoami, query or logout request carries the
\* credential (for logout: its access token) that the session of the request
\* held when the request was received; and a step of a request leaves the
\* session objects of all other sessions as they were.
C16_OwnCredentialOnly ==
    [][\A r \in Reqs :
        /\ (/\ Receives(r)
            /\ req'[r].ep \in ProtectedEndpoints
            /\ calls'[r] # <<>>)
           => /\ "sfdcAuth" \in DOMAIN session[req'[r].sid]
              /\ CallCredential(calls'[r][1], session[req'[r].sid].sfdcAuth)
        /\ req'[r] # req[r]
           => \A s \in Sessions \ {req'[r].sid} : session'[s] = session[s]]_vars

\* two sessions hold different credentials and a protected request of one
\* of them has made its upstream call with that session's credential
C16_Witness ==
    \E r \in Reqs :
        /\ req[r].pc # "idle"
        /\ req[r].ep \in ProtectedEndpoints
        /\ calls[r] # <<>>
        /\ \E s \in Sessions \ {req[r].sid} :
            /\ "sfdcAuth" \in DOMAIN session[s]
            /\ CallCredential(calls[r][1], req[r].session.sfdcAuth)
            /\ ~CallCredential(calls[r][1], session[s].sfdcAuth)

\* request r is received with cookie c, on some endpoint
ReceiveFor(r, c) ==
    \/ AuthLogin(r, c)
    \/ \E query \in CallbackQueries : AuthCallback(r, c, query)
    \/ AuthLogout(r, c)
    \/ AuthWhoami(r, c)
    \/ \E query \in QueryQueries : Query(r, c, query)

\* the callback of the upstream call of request r runs
CallbackOf(r) ==
    \/ \E cb \in AuthenticateArgs : AuthenticateDone(r, cb)
    \/ \E cb \in RevokeArgs, d \in DestroyArgs : RevokeDone(r, cb, d)
    \/ \E cb \in GetLoggedUserArgs : GetLoggedUserDone(r, cb)
    \/ \E cb \in HttpGetArgs : HttpGetDone(r, cb)

\* C17: while the upstream call of a request is in flight, the next request
\* to arrive can be received on every endpoint for any other session (a
\* stored one its cookie names, or a new one), and the callback of any other
\* request whose call is in flight can run: an outstanding call blocks
\* neither.
C17_InFlightCallDoesNotBlock ==
    \A r \in Reqs :
        req[r].pc = "waiting" =>
            \A r2 \in Reqs \ {r} :
                /\ (req[r2].pc = "idle" /\ \A p \in 1..(r2 - 1) : req[p].pc # "idle")
                   => \A c \in Cookies :
                        sessionID(r2, c) # req[r].sid
                        => /\ ENABLED AuthLogin(r2, c)
                           /\ ENABLED AuthLogout(r2, c)
                           /\ ENABLED AuthWhoami(r2, c)
                           /\ ENABLED ReceiveFor(r2, c)
                /\ req[r2].pc = "waiting" => ENABLED CallbackOf(r2)

\* the call of a request is still in flight while a request of another
\* session that arrived after it has made its own upstream call and has been
\* answered
C17_Witness ==
    \E a, b \in Reqs :
        /\ a < b
        /\ req[a].pc = "waiting"
        /\ req[b].pc = "done"
        /\ req[b].sid # req[a].sid
        /\ Len(calls[b]) = 1
        /\ Len(resp[b]) = 1

\* every upstream call that was issued completes: the callback of a call in
\* flight eventually runs, and so does the callback of a session destruction
FairSpec ==
    /\ Spec
    /\ \A r \in Reqs : WF_vars(CallbackOf(r))
    /\ \A r \in Reqs : WF_vars(DestroyDone(r))

\* C18: no request is ever sent more than one response, a request whose
\* handling is over has been sent one, and, every issued upstream call
\* completing, every request received is eventually answered: again and
\* again all requests received so far have their response (a response, once
\* sent, stays).
C18_ExactlyOneResponse ==
    /\ [](\A r \in Reqs :
            /\ Len(resp[r]) <= 1
            /\ req[r].pc \in {"done", "destroying"} => Len(resp[r]) = 1)
    /\ []<>(\A r \in Reqs : req[r].pc # "idle" => Len(resp[r]) = 1)

\* requests whose upstream call failed and requests answered without any
\* call have one response each
C18_Witness ==
    \E a, b, c \in Reqs :
        /\ req[a].pc = "done" /\ req[a].ep = "callback" /\ calls[a] # <<>> /\ Len(resp[a]) = 1
        /\ req[b].pc = "done" /\ req[b].ep = "logout" /\ calls[b] # <<>> /\ Len(resp[b]) = 1
        /\ "error" \in DOMAIN req[b].result
        /\ req[c].pc = "done" /\ req[c].ep = "query" /\ calls[c] = <<>> /\ Len(resp[c]) = 1

\* the step is the one in which logout request r destroys its session
Destroys(r) ==
    /\ Completes(r) /\ req[r].ep = "logout"
    /\ "error" \notin DOMAIN req'[r].result
    /\ "error" \notin DOMAIN req'[r].destroy

\* C19 (as claimed): when a logout destroys a session, the credential the
\* session holds at that moment has the access token the logout revoked;
\* and a callback received before a logout of its session does not store a
\* credential once that logout has been answered with its redirect.
C19_LogoutRevokesWhatItDrops ==
    [][\A r \in Reqs :
        /\ (Destroys(r) /\ "sfdcAuth" \in DOMAIN session[req[r].sid])
           => session[req[r].sid].sfdcAuth.access_token = calls[r][1].token
        /\ (/\ Completes(r) /\ req[r].ep = "callback"
            /\ "payload" \in DOMAIN req'[r].result)
           => ~ \E l \in Reqs :
                 /\ l > r
                 /\ req[l].pc # "idle" /\ req[l].ep = "logout" /\ req[l].sid = req[r].sid
                 /\ resp[l] = <<RedirectToIndex>>]_vars

\* C19 (amended): the token a logout revokes is the access token its
\* session held when the logout was received; when it destroys the session
\* and the session still holds that credential, the credential dropped is
\* the revoked one, and the session is left without a credential.
C19_LogoutRevokesItsOwnToken ==
    [][\A r \in Reqs :
        Destroys(r)
        => /\ calls[r][1] = [kind |-> "revoke", token |-> req[r].session.sfdcAuth.access_token]
           /\ session[req[r].sid] = req[r].session
              => session[req[r].sid].sfdcAuth.access_token = calls[r][1].token
           /\ session'[req[r].sid] = EmptyObject]_vars

\* a logout has destroyed its session, dropping the credential it revoked,
\* while a callback of the same session received before it is still in
\* flight
C19_Witness ==
    \E l, c \in Reqs :
        /\ c < l
        /\ req[l].pc \in {"destroying", "done"} /\ req[l].ep = "logout"
        /\ "destroy" \in DOMAIN req[l] /\ "error" \notin DOMAIN req[l].destroy
        /\ calls[l][1].token = req[l].session.sfdcAuth.access_token
        /\ session[req[l].sid] = EmptyObject
        /\ req[c].pc = "waiting" /\ req[c].ep = "callback" /\ req[c].sid = req[l].sid

\* the character a percent-encoded triple stands for
PercentDecoded(h1, h2) ==
    IF <<h1, h2>> = <<"2", "0">> THEN " "
    ELSE IF <<h1, h2>> = <<"2", "5">> THEN "%"
    ELSE IF <<h1, h2>> = <<"2", "6">> THEN "&"
    ELSE IF <<h1, h2>> = <<"3", "D">> THEN "="
    ELSE IF <<h1, h2>> = <<"2", "B">> THEN "+"
    ELSE IF <<h1, h2>> = <<"2", "3">> THEN "#"
    ELSE "?"

\* the value a receiver decodes from the encoded value of a query parameter
RECURSIVE DecodedValue(_)
DecodedValue(str) ==
    IF str = <<>> THEN <<>>
    ELSE IF Head(str) = "%" /\ Len(str) >= 3
    THEN <<PercentDecoded(str[2], str[3])>> \o DecodedValue(SubSeq(str, 4, Len(str)))
    ELSE IF Head(str) = "+" THEN <<" ">> \o DecodedValue(Tail(str))
    ELSE <<Head(str)>> \o DecodedValue(Tail(str))

\* the part of a query string before its fragment
RECURSIVE BeforeFragment(_)
BeforeFragment(str) ==
    IF str = <<>> \/ Head(str) = "#" THEN <<>>
    ELSE <<Head(str)>> \o BeforeFragment(Tail(str))

\* the part of a query string before the first parameter separator
RECURSIVE FirstParameter(_)
FirstParameter(str) ==
    IF str = <<>> \/ Head(str) = "&" THEN <<>>
    ELSE <<Head(str)>> \o FirstParameter(Tail(str))

\* the number of parameters of a query string
ParameterCount(str) == 1 + Cardinality({i \in DOMAIN str : str[i] = "&"})

\* C20: the path of the data call of a query request is 'query?q=' followed
\* by an encoding of q from which the upstream reads exactly one parameter,
\* q, whose decoded value is the q of the request.
C20_ForwardedQueryIsQ ==
    \A r \in Reqs :
        (req[r].pc # "idle" /\ req[r].ep = "query" /\ calls[r] # <<>>)
        => LET path == calls[r][1].path
               sent == BeforeFragment(Tail(path))
           IN /\ Head(path) = "query?q="
              /\ ParameterCount(sent) = 1
              /\ DecodedValue(FirstParameter(sent)) = req[r].query.q

\* a query whose q holds the reserved character & has been forwarded
C20_FailingCase ==
    \E r \in Reqs :
        /\ req[r].pc # "idle" /\ req[r].ep = "query" /\ calls[r] # <<>>
        /\ req[r].query.q = <<"a", "&">>
====
